---- MODULE Spec2Model ----
(***************************************************************************)
(* Model of the two pipeline classes of the repository:                    *)
(*   exemplo_audio_embeddings.py  class AudioEmbeddingSystem               *)
(*   exemplo_rag_sistema.py       class SistemaRAG (with its chunker)      *)
(* A run exercises one pipeline object (script = "audio" or "rag"), or     *)
(* the chunker on its own (script = "chunker").                            *)
(* Python dicts are objects: `heap` holds their contents, every other      *)
(* variable holds references (indices into heap), so that a dict shared    *)
(* between two places is one object.                                        *)
(* Python strings are modelled two ways: transcriptions and queries of the *)
(* audio pipeline are opaque TLA+ strings; texts that go through the       *)
(* chunker are sequences of one-character strings.                         *)
(***************************************************************************)
EXTENDS Integers, Sequences, FiniteSets, TLC

VARIABLES
    script,        \* which pipeline object this run drives: "audio" | "rag" | "chunker"
    transcricoes,  \* AudioEmbeddingSystem.transcricoes  (list of str)
    documentos,    \* SistemaRAG.documentos              (list of dict)
    chunks,        \* SistemaRAG.chunks                  (list of str)
    metadados,     \* self.metadados: list of references to dict objects
    heap,          \* the dict objects: reference -> mapping key -> value
    indice,        \* self.indice: None or a faiss.IndexFlatL2
    now,           \* the clock read by datetime.now()
    lastOp,        \* the method called last
    argK,          \* the k the last search was called with
    argQ,          \* the query the last search was called with
    argFalante,    \* the speaker the last filtered search kept
    err,           \* the exception the last call raised, "none" if it returned
    ret,           \* the last call's return value: <<>> is None, <<v>> is v
    buildCalled,   \* TRUE once criar_indice has been called
    buildsInRow,   \* ghost: how many of the last calls, back to back, were
                   \* successful criar_indice calls, counted up to 2
    passed,        \* ghost: per adicionar_transcricao call, the arguments as given
    texto,         \* chunker run: the text given to _dividir_em_chunks
    tamanho_chunk, \* chunker run: the target size given
    saida          \* chunker run: <<>> before the call, <<chunks>> after it

vars == <<script, transcricoes, documentos, chunks, metadados, heap, indice, now,
          lastOp, argK, argQ, argFalante, err, ret, buildCalled, buildsInRow,
          passed, texto, tamanho_chunk, saida>>

pipeVars == <<transcricoes, documentos, chunks, metadados, heap, indice, now,
              lastOp, argK, argQ, argFalante, err, ret, buildCalled, buildsInRow,
              passed>>
chunkerVars == <<texto, tamanho_chunk, saida>>

-----------------------------------------------------------------------------
(* Bounds of the model *)

MaxUnits == 2      \* adds per run of the audio pipeline
MaxDocs == 2       \* documents per run of the RAG pipeline
MaxLen == 6        \* longest text given to the chunker on its own
MaxSize == 8       \* largest target size given to the chunker on its own

-----------------------------------------------------------------------------
(* Python helpers *)

Min2(a, b) == IF a <= b THEN a ELSE b

\* list[i] for a Python int i, negative i counting from the end; <<>> if IndexError
PyGetItem(list, i) ==
    IF i >= 0 /\ i < Len(list) THEN <<list[i + 1]>>
    ELSE IF i < 0 /\ Len(list) + i >= 0 THEN <<list[Len(list) + i + 1]>>
    ELSE <<>>

\* {**a, **b} and a[k] = v: b's keys win
DictMerge(a, b) == b @@ a
DictSet(d, k, v) == (k :> v) @@ d
EmptyDict == [x \in {} |-> 0]

-----------------------------------------------------------------------------
(* The embedding model and the flat L2 index (external collaborators) *)

\* SentenceTransformer.encode of one text: a deterministic vector per text,
\* here of dimension 1. Chunk texts (character sequences) embed by content.
RECURSIVE CharSum(_)
CharSum(s) ==
    IF s = <<>> THEN 0
    ELSE (CASE Head(s) = "a" -> 1 [] Head(s) = "b" -> 3 [] Head(s) = "W" -> 7 [] OTHER -> 0)
         + CharSum(Tail(s))

EncodeOne(t) ==
    IF script = "audio"
    THEN CASE t = "cat" -> 0 [] t = "car" -> 1 [] t = "dog" -> 4 [] OTHER -> 9
    ELSE CharSum(t)

\* modelo.encode(list)
Encode(list) == [i \in 1..Len(list) |-> EncodeOne(list[i])]

NoneIndice == [none |-> TRUE, xb |-> <<>>]
IndexFlatL2_Reusado == [none |-> FALSE, xb |-> indice.xb]
\* faiss.IndexFlatL2(d): a fresh, empty index
IndexFlatL2 == [none |-> FALSE, xb |-> <<>>]
\* index.add(vectors)
IndexAdd(ind, vecs) == [ind EXCEPT !.xb = @ \o vecs]

L2(a, b) == (a - b) * (a - b)

\* the distance faiss reports in a result slot it could not fill (label -1)
PadDist == 1000

\* rows of xb in S ordered by (distance to qv, row)
RECURSIVE Ranked(_, _, _)
Ranked(xb, qv, S) ==
    IF S = {} THEN <<>>
    ELSE LET best == CHOOSE i \in S : \A j \in S :
                        \/ L2(xb[i], qv) < L2(xb[j], qv)
                        \/ (L2(xb[i], qv) = L2(xb[j], qv) /\ i <= j)
         IN <<best>> \o Ranked(xb, qv, S \ {best})

\* index.search(qv, k) for k >= 1: exactly k (distance, label) pairs; the
\* nearest min(k, ntotal) rows first, every remaining slot is (PadDist, -1)
IndexSearch(ind, qv, k) ==
    LET r == Ranked(ind.xb, qv, 1..Len(ind.xb))
    IN [j \in 1..k |->
            IF j <= Len(r) THEN [distancia |-> L2(ind.xb[r[j]], qv), idx |-> r[j] - 1]
            ELSE [distancia |-> PadDist, idx |-> -1]]

-----------------------------------------------------------------------------
(* The chunker: SistemaRAG._dividir_em_chunks *)

\* A text is a sequence of characters. "W" abbreviates a run of BlockLen
\* letters (a long word), so that texts longer than the default target
\* size stay small; it only occurs in the documents of the RAG run.
BlockLen == 300
DefaultTamanhoChunk == 500

CharLen(c) == IF c = "W" THEN BlockLen ELSE 1

\* len(s)
RECURSIVE StrLen(_)
StrLen(s) == IF s = <<>> THEN 0 ELSE CharLen(Head(s)) + StrLen(Tail(s))

IsPunct(c) == c \in {".", "!", "?"}
IsSpace(c) == c \in {" ", "\n"}

\* re.split(r'[.!?]+', s): the pieces between maximal runs of punctuation,
\* empty pieces at the ends included
RECURSIVE ReSplit(_, _, _)
ReSplit(s, cur, inRun) ==
    IF s = <<>> THEN <<cur>>
    ELSE IF IsPunct(Head(s))
         THEN IF inRun THEN ReSplit(Tail(s), cur, TRUE)
              ELSE <<cur>> \o ReSplit(Tail(s), <<>>, TRUE)
         ELSE ReSplit(Tail(s), Append(cur, Head(s)), FALSE)

RECURSIVE LStrip(_)
LStrip(s) == IF s # <<>> /\ IsSpace(Head(s)) THEN LStrip(Tail(s)) ELSE s
RECURSIVE RStrip(_)
RStrip(s) ==
    IF s # <<>> /\ IsSpace(s[Len(s)]) THEN RStrip(SubSeq(s, 1, Len(s) - 1)) ELSE s
\* s.strip()
Strip(s) == RStrip(LStrip(s))

\* line 98: if len(chunk_atual + sentenca) < tamanho_chunk
CabeNoChunk_Inclusive(chunk_atual, sentenca, tamanho) ==
    StrLen(chunk_atual \o sentenca) <= tamanho
CabeNoChunk(chunk_atual, sentenca, tamanho) ==
    StrLen(chunk_atual \o sentenca) < tamanho

\* one iteration of the loop over sentencas; st = [chunks, chunk_atual]
ChunkStep(st, sentenca0, tamanho) ==
    LET sentenca == Strip(sentenca0)
    IN IF sentenca = <<>> THEN st
       ELSE IF CabeNoChunk(st.chunk_atual, sentenca, tamanho)
            THEN [st EXCEPT !.chunk_atual = @ \o sentenca \o <<".", " ">>]
            ELSE [chunks |-> IF st.chunk_atual # <<>>
                             THEN Append(st.chunks, Strip(st.chunk_atual))
                             ELSE st.chunks,
                  chunk_atual |-> sentenca \o <<".", " ">>]

RECURSIVE ChunkLoop(_, _, _)
ChunkLoop(st, sentencas, tamanho) ==
    IF sentencas = <<>> THEN st
    ELSE ChunkLoop(ChunkStep(st, Head(sentencas), tamanho), Tail(sentencas), tamanho)

ChunkFlush_Esquecido(st) == st.chunks
\* the flush after the loop
ChunkFlush(st) ==
    IF st.chunk_atual # <<>> THEN Append(st.chunks, Strip(st.chunk_atual)) ELSE st.chunks

DividirEmChunks(txt, tamanho) ==
    ChunkFlush(ChunkLoop([chunks |-> <<>>, chunk_atual |-> <<>>],
                         ReSplit(txt, <<>>, FALSE), tamanho))

-----------------------------------------------------------------------------
(* Inputs the callers draw from *)

Textos == {"cat", "dog"}                 \* transcriptions
Consultas == {"car"}                     \* audio queries
Perguntas == {<<"a">>}                   \* RAG questions
Ks == {-1, 0, 1, 2, 3}                   \* k of a search

\* dict literals a caller passes as metadata to adicionar_transcricao
MetaLiterais ==
    { ("falante" :> "Ana"),
      ("falante" :> "Rui") @@ ("timestamp" :> 100) @@ ("id" :> 7) }

\* (texto, titulo) of the documents given to adicionar_documento: one
\* without sentence content, one of one chunk, one of two chunks
Docs ==
    { <<<<".", ".", " ">>, "T0">>,
      <<<<"a", ".", " ", "b", ".">>, "T1">>,
      <<<<"W", ".", " ", "W", "b", "?", " ", "a">>, "T2">> }
\* dict literals a caller passes as metadata to adicionar_documento
DocMetaLiterais ==
    { ("categoria" :> "IA"),
      ("categoria" :> "BD") @@ ("titulo" :> "X") @@ ("doc_id" :> 9) @@ ("chunk_id" :> 9) }

\* texts and target sizes given to the chunker on its own
Alfabeto == {"a", " ", ".", "?"}
ChunkerTextos == UNION { [1..n -> Alfabeto] : n \in 0..MaxLen }

-----------------------------------------------------------------------------
(* State *)

\* the list the index is built over and searched results are joined against
Store == IF script = "audio" THEN transcricoes ELSE chunks

InitPipe ==
    /\ transcricoes = <<>>
    /\ documentos = <<>>
    /\ chunks = <<>>
    /\ metadados = <<>>
    /\ heap = <<>>
    /\ indice = NoneIndice
    /\ now = 1
    /\ lastOp = "init"
    /\ argK = 0
    /\ argQ = <<>>
    /\ argFalante = ""
    /\ err = "none"
    /\ ret = <<>>
    /\ buildCalled = FALSE
    /\ buildsInRow = 0
    /\ passed = <<>>

InitChunkerIdle ==
    /\ texto = <<>>
    /\ tamanho_chunk = DefaultTamanhoChunk
    /\ saida = <<>>

\* AudioEmbeddingSystem.__init__ / SistemaRAG.__init__
Init ==
    /\ script \in {"audio", "rag"}
    /\ InitPipe
    /\ InitChunkerIdle

-----------------------------------------------------------------------------
(* AudioEmbeddingSystem.adicionar_transcricao *)

\* the dict after lines 47-51: timestamp defaulted, id stamped
Stamp(d, id) ==
    DictSet(IF "timestamp" \in DOMAIN d THEN d ELSE DictSet(d, "timestamp", now), "id", id)

\* arg = <<>>: metadados=None; arg = <<"new", d>>: a dict the caller has just
\* made; arg = <<"ref", r>>: a dict object the caller already holds
AdicionarTranscricao(transcricao, arg) ==
    /\ script = "audio"
    /\ Len(transcricoes) < MaxUnits
    /\ LET given == IF arg = <<>> THEN EmptyDict
                    ELSE IF arg[1] = "new" THEN arg[2] ELSE heap[arg[2]]
           ref == IF arg # <<>> /\ arg[1] = "ref" THEN arg[2] ELSE Len(heap) + 1
           stamped == Stamp(given, Len(transcricoes))
       IN /\ heap' = IF ref > Len(heap) THEN Append(heap, stamped)
                     ELSE [heap EXCEPT ![ref] = stamped]
          /\ metadados' = Append(metadados, ref)
          /\ passed' = Append(passed, [texto |-> transcricao,
                                       meta |-> IF arg = <<>> THEN <<>> ELSE <<given>>])
    /\ transcricoes' = Append(transcricoes, transcricao)
    /\ now' = now + 1
    /\ lastOp' = "add"
    /\ err' = "none"
    /\ ret' = <<>>
    /\ buildsInRow' = 0
    /\ UNCHANGED <<script, documentos, chunks, indice, argK, argQ, argFalante, buildCalled,
                   chunkerVars>>

AddArgs ==
    {<<>>} \cup {<<"new", d>> : d \in MetaLiterais} \cup {<<"ref", r>> : r \in 1..Len(heap)}

-----------------------------------------------------------------------------
(* criar_indice of both classes *)

\* line 62 / 116: if not self.transcricoes / if not self.chunks
CorpusVazio_SemGuarda(store) == FALSE
CorpusVazio(store) == store = <<>>

\* criar_indice that drops the old index before it encodes
CriarIndice_Descarta(outcome) ==
    /\ lastOp' = "build"
    /\ buildCalled' = TRUE
    /\ ret' = <<>>
    /\ IF CorpusVazio(Store)
       THEN /\ outcome = "ok"
            /\ err' = "EmptyCorpus"
            /\ indice' = indice
       ELSE CASE outcome = "encode" ->
                    /\ err' = "EmbeddingError"
                    /\ indice' = NoneIndice
              [] outcome = "load" ->
                    /\ err' = "IndexLoadError"
                    /\ indice' = IndexFlatL2
              [] OTHER ->
                    /\ err' = "none"
                    /\ indice' = IndexAdd(IndexFlatL2, Encode(Store))
    /\ buildsInRow' = IF err' = "none" THEN Min2(buildsInRow + 1, 2) ELSE 0
    /\ UNCHANGED <<script, transcricoes, documentos, chunks, metadados, heap, now,
                   argK, argQ, argFalante, passed, chunkerVars>>

\* outcome: "ok", or the stage that raises: "encode" (modelo.encode) or
\* "load" (indice.add, after self.indice was assigned the fresh index)
CriarIndice(outcome) ==
    /\ lastOp' = "build"
    /\ buildCalled' = TRUE
    /\ ret' = <<>>
    /\ IF CorpusVazio(Store)
       THEN /\ outcome = "ok"
            /\ err' = "EmptyCorpus"
            /\ indice' = indice
       ELSE CASE outcome = "encode" ->
                    /\ err' = "EmbeddingError"
                    /\ indice' = indice
              [] outcome = "load" ->
                    /\ err' = "IndexLoadError"
                    /\ indice' = IndexFlatL2
              [] OTHER ->
                    /\ err' = "none"
                    /\ indice' = IndexAdd(IndexFlatL2, Encode(Store))
    /\ buildsInRow' = IF err' = "none" THEN Min2(buildsInRow + 1, 2) ELSE 0
    /\ UNCHANGED <<script, transcricoes, documentos, chunks, metadados, heap, now,
                   argK, argQ, argFalante, passed, chunkerVars>>

-----------------------------------------------------------------------------
(* buscar_transcricoes / recuperar_contexto / responder_pergunta *)

\* what indice.search does with k <= 0 is the library's business, the scripts
\* do not look at k: a negative k always raises inside the library; k = 0
\* raises (the wrapper's assert, or the C++ check) or, where neither is
\* compiled in, yields empty arrays. lib picks the build.
LibRaises(k, lib) == k < 0 \/ (k = 0 /\ lib = "checked")
Libs == {"checked", "unchecked"}

\* line 86 / 140: if self.indice is None
IndiceAusente_SemGuarda(ind) == FALSE
IndiceAusente(ind) == ind.none

\* the result dict of one (distancia, idx) pair; <<>> on IndexError
Resultado(pos, par) ==
    LET t == PyGetItem(Store, par.idx)
        m == PyGetItem(metadados, par.idx)
        base == [metadados |-> m[1], distancia |-> par.distancia,
                 similaridade |-> <<1, 1 + par.distancia>>]
    IN IF t = <<>> \/ m = <<>> THEN <<>>
       ELSE IF script = "audio"
            THEN <<base @@ [posicao |-> pos, transcricao |-> t[1]]>>
            ELSE <<base @@ [chunk |-> t[1]]>>

\* the loop over zip(distancias[0], indices[0])
Juntar(pares) == [i \in 1..Len(pares) |-> Resultado(i, pares[i])]

Buscar(op, consulta, k) ==
    /\ lastOp' = op
    /\ argK' = k
    /\ argQ' = consulta
    /\ IF IndiceAusente(indice)
       THEN err' = "NotIndexed" /\ ret' = <<>>
       ELSE IF k <= 0
            THEN \E lib \in Libs :
                    IF LibRaises(k, lib)
                    THEN err' = "LibraryError" /\ ret' = <<>>
                    ELSE err' = "none" /\ ret' = << <<>> >>
            ELSE LET j == Juntar(IndexSearch(indice, EncodeOne(consulta), k))
                 IN IF \E i \in 1..Len(j) : j[i] = <<>>
                    THEN err' = "IndexError" /\ ret' = <<>>
                    ELSE err' = "none" /\ ret' = << [i \in 1..Len(j) |-> j[i][1]] >>
    /\ buildsInRow' = 0
    /\ UNCHANGED <<script, transcricoes, documentos, chunks, metadados, heap, indice,
                   now, argFalante, buildCalled, passed, chunkerVars>>

BuscarTranscricoes(consulta, k) ==
    script = "audio" /\ Buscar("search", consulta, k)

RecuperarContexto(pergunta, k) ==
    script = "rag" /\ Buscar("search", pergunta, k)

\* recuperar_contexto, then gerar_resposta over its result: an exception of
\* the former propagates; the answer is built from the chunks of the context
ResponderPergunta(pergunta, k) ==
    script = "rag" /\ Buscar("responder", pergunta, k)

-----------------------------------------------------------------------------
(* exemplo_busca_por_falante: the search filtered by speaker *)

Falantes == {"Ana"}

\* line 237: the k of the filtered search, at least the corpus size in the script
KsFalante == {2, 3}

\* line 242: r['metadados'].get('falante') == falante_alvo
DoFalante(r, alvo) ==
    "falante" \in DOMAIN heap[r.metadados] /\ heap[r.metadados]["falante"] = alvo

\* lines 240-243 with the kept items numbered anew
Filtrar_Renumerado(resultados, alvo) ==
    LET kept == SelectSeq(resultados, LAMBDA r : DoFalante(r, alvo))
    IN [i \in 1..Len(kept) |-> [kept[i] EXCEPT !.posicao = i]]
\* lines 240-243: the list comprehension
Filtrar(resultados, alvo) == SelectSeq(resultados, LAMBDA r : DoFalante(r, alvo))

\* lines 231-243: reached when criar_indice (line 231) has returned; then
\* buscar_transcricoes(consulta, k), whose exception propagates, and the
\* filter over its result
BuscaPorFalante(alvo, consulta, k) ==
    /\ script = "audio"
    /\ lastOp = "build" /\ err = "none"
    /\ lastOp' = "filtered"
    /\ argK' = k
    /\ argQ' = consulta
    /\ argFalante' = alvo
    /\ IF IndiceAusente(indice)
       THEN err' = "NotIndexed" /\ ret' = <<>>
       ELSE IF k <= 0
            THEN \E lib \in Libs :
                    IF LibRaises(k, lib)
                    THEN err' = "LibraryError" /\ ret' = <<>>
                    ELSE err' = "none" /\ ret' = << Filtrar(<<>>, alvo) >>
            ELSE LET j == Juntar(IndexSearch(indice, EncodeOne(consulta), k))
                 IN IF \E i \in 1..Len(j) : j[i] = <<>>
                    THEN err' = "IndexError" /\ ret' = <<>>
                    ELSE err' = "none"
                         /\ ret' = << Filtrar([i \in 1..Len(j) |-> j[i][1]], alvo) >>
    /\ buildsInRow' = 0
    /\ UNCHANGED <<script, transcricoes, documentos, chunks, metadados, heap, indice,
                   now, buildCalled, passed, chunkerVars>>

-----------------------------------------------------------------------------
(* SistemaRAG.adicionar_documento *)

AdicionarDocumento(txt, titulo, arg) ==
    /\ script = "rag"
    /\ Len(documentos) < MaxDocs
    /\ LET given == IF arg = <<>> THEN EmptyDict
                    ELSE IF arg[1] = "new" THEN arg[2] ELSE heap[arg[2]]
           ref == IF arg # <<>> /\ arg[1] = "ref" THEN arg[2] ELSE Len(heap) + 1
           heap1 == IF ref > Len(heap) THEN Append(heap, given) ELSE heap
           chunks_doc == DividirEmChunks(txt, DefaultTamanhoChunk)
           doc_id == Len(documentos)
           chunk_metadados(i) ==
               DictMerge(("doc_id" :> doc_id) @@ ("chunk_id" :> i) @@ ("titulo" :> titulo),
                         given)
       IN /\ documentos' = Append(documentos, [id |-> doc_id, titulo |-> titulo,
                                               texto |-> txt, metadados |-> ref])
          /\ chunks' = chunks \o chunks_doc
          /\ heap' = heap1 \o [i \in 1..Len(chunks_doc) |-> chunk_metadados(i - 1)]
          /\ metadados' = metadados \o [i \in 1..Len(chunks_doc) |-> Len(heap1) + i]
    /\ lastOp' = "add"
    /\ err' = "none"
    /\ ret' = <<>>
    /\ buildsInRow' = 0
    /\ UNCHANGED <<script, transcricoes, indice, now, argK, argQ, argFalante, buildCalled, passed,
                   chunkerVars>>

\* (the dict is only read, line 68 copies it: a dict passed twice behaves as
\* two equal literals, so the callers here pass None or a literal)
DocArgs == {<<>>} \cup {<<"new", d>> : d \in DocMetaLiterais}

-----------------------------------------------------------------------------
(* The chunker on its own *)

InitChunker ==
    /\ script = "chunker"
    /\ InitPipe
    /\ texto \in ChunkerTextos
    /\ tamanho_chunk \in 1..MaxSize
    /\ saida = <<>>

DividirAction ==
    /\ script = "chunker"
    /\ saida = <<>>
    /\ saida' = <<DividirEmChunks(texto, tamanho_chunk)>>
    /\ UNCHANGED <<script, texto, tamanho_chunk, pipeVars>>

-----------------------------------------------------------------------------
(* Specifications *)

Outcomes == {"ok", "encode", "load"}

Next ==
    \/ \E t \in Textos, a \in AddArgs : AdicionarTranscricao(t, a)
    \/ \E d \in Docs, a \in DocArgs : AdicionarDocumento(d[1], d[2], a)
    \/ \E o \in Outcomes : CriarIndice(o)
    \/ \E q \in Consultas, k \in Ks : BuscarTranscricoes(q, k)
    \/ \E f \in Falantes, q \in Consultas, k \in KsFalante : BuscaPorFalante(f, q, k)
    \/ \E q \in Perguntas, k \in Ks : RecuperarContexto(q, k)
    \/ \E q \in Perguntas, k \in Ks : ResponderPergunta(q, k)

Spec == Init /\ [][Next]_vars

NextChunker == DividirAction

SpecChunker == InitChunker /\ [][NextChunker]_vars

-----------------------------------------------------------------------------
(* Properties *)

IsSearch(op) == op \in {"search", "responder"}

\* C1: a search (buscar_transcricoes, recuperar_contexto, responder_pergunta)
\* made while criar_indice has never been called raises NotIndexed and
\* returns nothing, whatever was added before and whatever the query and k.
C1_SearchBeforeBuild ==
    (IsSearch(lastOp) /\ ~buildCalled) => (err = "NotIndexed" /\ ret = <<>>)

C1_Witness ==
    /\ script = "audio" /\ lastOp = "search" /\ ~buildCalled
    /\ Len(transcricoes) = 2 /\ argK = 3 /\ err = "NotIndexed"

\* C2: criar_indice over a store of zero units (no transcription; no chunk,
\* even with documents added) raises EmptyCorpus and leaves the index absent,
\* and a search that follows it still raises NotIndexed.
C2_EmptyBuildState ==
    (lastOp = "build" /\ Store = <<>>) => (err = "EmptyCorpus" /\ indice.none)

C2_EmptyBuildThenSearch ==
    (lastOp = "build" /\ err = "EmptyCorpus" /\ IsSearch(lastOp'))
        => (err' = "NotIndexed" /\ ret' = <<>> /\ indice'.none)

C2_EmptyBuild == [](C2_EmptyBuildState) /\ [][C2_EmptyBuildThenSearch]_vars

C2_Witness ==
    /\ script = "rag" /\ Len(documentos) = 2 /\ chunks = <<>>
    /\ lastOp = "build" /\ err = "EmptyCorpus"

\* the last call was a search with k >= 1 that returned, over an index that
\* holds the rows of a successful build
SearchReturned ==
    IsSearch(lastOp) /\ err = "none" /\ argK >= 1 /\ ~indice.none /\ Len(indice.xb) >= 1

\* result i of the last search is store entry u (same text, same metadata object)
IsUnit(i, u) ==
    /\ ret[1][i].metadados = metadados[u]
    /\ IF script = "audio" THEN ret[1][i].transcricao = Store[u]
                           ELSE ret[1][i].chunk = Store[u]

\* C3: a search with k >= 1 over an index built over n units returns exactly
\* min(k, n) results, no unit twice, in non-decreasing order of distance.
C3_MinKN ==
    SearchReturned =>
        /\ Len(ret[1]) = Min2(argK, Len(indice.xb))
        /\ \A i, j \in 1..Len(ret[1]) :
              i < j => /\ ret[1][i].distancia <= ret[1][j].distancia
                       /\ ~(\E u \in 1..Len(Store) : IsUnit(i, u) /\ IsUnit(j, u))

\* C4: the store keeps len(transcricoes) = len(metadados) and
\* metadados[i]['id'] = i for every stored i, whatever mappings were passed.
C4_IdsMatchPositions ==
    script = "audio" =>
        /\ Len(transcricoes) = Len(metadados)
        /\ \A i \in 1..Len(metadados) :
              "id" \in DOMAIN heap[metadados[i]] /\ heap[metadados[i]]["id"] = i - 1

\* C5: every result of a search is a unit that was in the store at the last
\* build; a unit added since never appears, for any k.
C5_AddedAfterBuildInvisible ==
    SearchReturned =>
        \A i \in 1..Len(ret[1]) : \E u \in 1..Len(indice.xb) : IsUnit(i, u)

\* C6: a criar_indice that raises (in the embedding call or in the load of
\* the vectors) leaves the store as it was and a pipeline that had no index
\* without one.
C6_FailedBuildStep ==
    (lastOp' = "build" /\ err' # "none" /\ indice.none)
        => (indice'.none /\ Store' = Store /\ metadados' = metadados /\ heap' = heap)

C6_BuildAllOrNothing == [][C6_FailedBuildStep]_vars

\* the sentences of a chunk sequence: each chunk, with the space its trim
\* removed put back, is a run of sentences each closed by ". "
RECURSIVE SplitOnSeparator(_, _)
SplitOnSeparator(s, cur) ==
    IF s = <<>> THEN (IF cur = <<>> THEN <<>> ELSE <<cur>>)
    ELSE IF Len(s) >= 2 /\ s[1] = "." /\ s[2] = " "
         THEN <<cur>> \o SplitOnSeparator(SubSeq(s, 3, Len(s)), <<>>)
         ELSE SplitOnSeparator(Tail(s), Append(cur, Head(s)))

RECURSIVE SentencesOfChunks(_)
SentencesOfChunks(cs) ==
    IF cs = <<>> THEN <<>>
    ELSE SplitOnSeparator(Head(cs) \o <<" ">>, <<>>) \o SentencesOfChunks(Tail(cs))

\* the non-empty trimmed sentences of a text, in order
RECURSIVE NonEmptyTrimmed(_)
NonEmptyTrimmed(pieces) ==
    IF pieces = <<>> THEN <<>>
    ELSE (IF Strip(Head(pieces)) = <<>> THEN <<>> ELSE <<Strip(Head(pieces))>>)
         \o NonEmptyTrimmed(Tail(pieces))

SentencesOfText(txt) == NonEmptyTrimmed(ReSplit(txt, <<>>, FALSE))

NumSentences(chunk) == Cardinality({i \in 1..Len(chunk) : chunk[i] = "."})

\* C7 as stated: a chunk is no longer than the target size, unless it is one
\* sentence whose own length exceeds the target size.
C7_ChunkBoundStrict ==
    saida # <<>> =>
        \A i \in 1..Len(saida[1]) :
            \/ StrLen(saida[1][i]) <= tamanho_chunk
            \/ (NumSentences(saida[1][i]) = 1 /\ StrLen(saida[1][i]) - 1 > tamanho_chunk)

\* C7 as amended: a chunk is no longer than the target size, unless it is one
\* sentence whose own length is at least the target size (the chunk is then
\* that sentence and its period).
C7_ChunkBound ==
    saida # <<>> =>
        \A i \in 1..Len(saida[1]) :
            \/ StrLen(saida[1][i]) <= tamanho_chunk
            \/ (NumSentences(saida[1][i]) = 1 /\ StrLen(saida[1][i]) - 1 >= tamanho_chunk)

\* a chunk within the target size, followed by the chunk of one sentence
\* that is exactly as long as the target size
C7_Witness ==
    /\ saida # <<>> /\ Len(saida[1]) = 2
    /\ StrLen(saida[1][1]) <= tamanho_chunk
    /\ NumSentences(saida[1][2]) = 1 /\ StrLen(saida[1][2]) - 1 = tamanho_chunk

\* C8: the chunks, in order, hold exactly the non-empty trimmed sentences of
\* the text, each once and in order; no chunk is empty; a text with no
\* sentence content gives no chunk.
C8_NoSentenceLost ==
    saida # <<>> =>
        /\ SentencesOfChunks(saida[1]) = SentencesOfText(texto)
        /\ \A i \in 1..Len(saida[1]) : saida[1][i] # <<>>
        /\ (SentencesOfText(texto) = <<>> => saida[1] = <<>>)

\* three sentences, the first two different, spread over two chunks
C8_Witness ==
    /\ saida # <<>> /\ Len(saida[1]) = 2
    /\ Len(SentencesOfText(texto)) = 3
    /\ SentencesOfText(texto)[1] # SentencesOfText(texto)[2]
    /\ NumSentences(saida[1][1]) = 2

\* C9: adicionar_transcricao returns the identifier it assigned, and the
\* store at that identifier holds, from then on, the text passed in and a
\* mapping with every pair passed in plus 'timestamp' and 'id'.
C9_AddThenGet ==
    script = "audio" =>
        /\ lastOp = "add" => ret = <<Len(transcricoes) - 1>>
        /\ \A i \in 1..Len(passed) :
              /\ transcricoes[i] = passed[i].texto
              /\ {"timestamp", "id"} \subseteq DOMAIN heap[metadados[i]]
              /\ heap[metadados[i]]["id"] = i - 1
              /\ passed[i].meta # <<>> =>
                    \A key \in DOMAIN passed[i].meta[1] \ {"id"} :
                        /\ key \in DOMAIN heap[metadados[i]]
                        /\ heap[metadados[i]][key] = passed[i].meta[1][key]

\* C10: in the Indexed state a search with k <= 0 raises and returns no
\* result list (any error raised for the argument is taken for the
\* InvalidArgument of the claim), and changes neither store nor index.
C10_NonPositiveKStep ==
    (IsSearch(lastOp') /\ argK' <= 0 /\ ~indice.none)
        => /\ err' # "none" /\ ret' = <<>>
           /\ indice' = indice /\ Store' = Store /\ metadados' = metadados /\ heap' = heap

C10_NonPositiveK == [][C10_NonPositiveKStep]_vars

\* the queries of the running pipeline, and the result list a search for q
\* with k >= 1 gives over index ind and the present store
Queries == IF script = "audio" THEN Consultas ELSE Perguntas
ResultadosDe(ind, q, k) == Juntar(IndexSearch(ind, EncodeOne(q), k))

\* C11: a successful criar_indice that directly follows a successful
\* criar_indice leaves the index as the first one left it: the same rows in
\* the same order, one per stored unit, and so the same result list for
\* every search.
C11_SecondBuildStep ==
    (lastOp = "build" /\ err = "none" /\ lastOp' = "build" /\ err' = "none")
        => /\ indice' = indice
           /\ Len(indice'.xb) = Len(Store)
           /\ Store' = Store /\ metadados' = metadados /\ heap' = heap
           /\ \A q \in Queries, k \in 1..3 :
                 ResultadosDe(indice', q, k) = ResultadosDe(indice, q, k)

C11_BuildIdempotent == [][C11_SecondBuildStep]_vars

C11_Witness ==
    /\ buildsInRow = 2 /\ lastOp = "build" /\ err = "none"
    /\ Len(Store) = 2 /\ Len(indice.xb) = 2

\* C12: the store only grows by appends: in every step the count does not
\* decrease and every entry already stored keeps its text and its whole
\* metadata record, 'id' and 'timestamp' included.
C12_AppendOnlyStep ==
    /\ Len(Store') >= Len(Store)
    /\ Len(metadados') >= Len(metadados)
    /\ \A i \in 1..Len(Store) : Store'[i] = Store[i]
    /\ \A i \in 1..Len(metadados) : heap'[metadados'[i]] = heap[metadados[i]]

C12_AppendOnly == [][C12_AppendOnlyStep]_vars

\* the label the index returned for slot i of the last search
LabelOf(i) == IndexSearch(indice, EncodeOne(argQ), argK)[i].idx

\* C13: after a successful criar_indice row i of the index is the embedding
\* of store unit i, one row per unit; and slot i of a search result, built
\* from the label the index returned, carries the text and the metadata of
\* the store entry with that identifier, for every k >= 1.
C13_RowsAndJoin ==
    /\ (lastOp = "build" /\ err = "none") => indice.xb = Encode(Store)
    /\ SearchReturned =>
          \A i \in 1..Len(ret[1]) :
              /\ LabelOf(i) \in 0..(Len(Store) - 1)
              /\ ret[1][i].metadados = metadados[LabelOf(i) + 1]
              /\ IF script = "audio"
                 THEN ret[1][i].transcricao = Store[LabelOf(i) + 1]
                 ELSE ret[1][i].chunk = Store[LabelOf(i) + 1]

\* the list buscar_transcricoes(argQ, argK) returns in the present state
FullResult ==
    IF argK <= 0 THEN <<>>
    ELSE [j \in 1..argK |-> ResultadosDe(indice, argQ, argK)[j][1]]

\* C14: the speaker-filtered search returns exactly the items of the
\* unfiltered result whose metadata has the speaker, in the same order, each
\* item unchanged (its rank is the one of the unfiltered list).
C14_FilteredState ==
    (lastOp = "filtered" /\ err = "none") =>
        /\ \A i \in 1..Len(ret[1]) :
              /\ ret[1][i].posicao \in 1..Len(FullResult)
              /\ ret[1][i] = FullResult[ret[1][i].posicao]
              /\ DoFalante(ret[1][i], argFalante)
        /\ \A i, j \in 1..Len(ret[1]) : i < j => ret[1][i].posicao < ret[1][j].posicao
        /\ \A j \in 1..Len(FullResult) :
              DoFalante(FullResult[j], argFalante)
                  => \E i \in 1..Len(ret[1]) : ret[1][i].posicao = j

\* ... and computing it changes neither the store nor the index.
C14_FilteredStep ==
    lastOp' = "filtered" =>
        /\ indice' = indice /\ Store' = Store /\ metadados' = metadados /\ heap' = heap

C14_PostFilter == [](C14_FilteredState) /\ [][C14_FilteredStep]_vars

\* the first item of the unfiltered list was dropped, the second kept
C14_Witness ==
    /\ lastOp = "filtered" /\ err = "none" /\ argK = 2
    /\ Len(ret[1]) = 1 /\ ret[1][1].posicao = 2

\* C15: the index is absent until a build is called; it becomes present only
\* in a build step; once present, no add, build or search makes it absent.
C15_IndexedStep ==
    /\ (indice.none /\ ~indice'.none) => lastOp' = "build"
    /\ ~indice.none => ~indice'.none

C15_IndexedAbsorbing == [](~buildCalled => indice.none) /\ [][C15_IndexedStep]_vars

\* a rebuild has just failed over a present index
C15_Witness ==
    /\ buildsInRow = 0 /\ lastOp = "build" /\ err = "EmbeddingError"
    /\ ~indice.none /\ Len(indice.xb) >= 1

\* the sentences a chunk was built from
SentencesOf(chunk) == SplitOnSeparator(chunk \o <<" ">>, <<>>)

\* the length of the buffer holding the first n of the sentences ss, each
\* followed by ". "
RECURSIVE BufLen(_, _)
BufLen(ss, n) == IF n = 0 THEN 0 ELSE BufLen(ss, n - 1) + StrLen(ss[n]) + 2

\* the sentences ss joined in one buffer, trimmed
RECURSIVE Merged(_)
Merged(ss) ==
    IF Len(ss) = 1 THEN ss[1] \o <<".">>
    ELSE ss[1] \o <<".", " ">> \o Merged(Tail(ss))

\* C16: the chunks hold the sentences of the text in order; a sentence is in
\* the chunk of the one before it exactly when the buffer length plus its
\* length was below the target size, and opens a new chunk otherwise; chunks
\* are trimmed. So sentences that all fit together give the one chunk of
\* all of them, as 'A. B. C.' with target 100 does.
C16_Greedy ==
    /\ saida # <<>> =>
          LET cs == saida[1]
              ss == SentencesOfText(texto)
          IN /\ SentencesOfChunks(cs) = ss
             /\ \A j \in 1..Len(cs) :
                   /\ Strip(cs[j]) = cs[j]
                   /\ \A i \in 2..Len(SentencesOf(cs[j])) :
                         BufLen(SentencesOf(cs[j]), i - 1)
                             + StrLen(SentencesOf(cs[j])[i]) < tamanho_chunk
             /\ \A j \in 1..(Len(cs) - 1) :
                   BufLen(SentencesOf(cs[j]), Len(SentencesOf(cs[j])))
                       + StrLen(SentencesOf(cs[j + 1])[1]) >= tamanho_chunk
             /\ (ss # <<>> /\ BufLen(ss, Len(ss) - 1) + StrLen(ss[Len(ss)]) < tamanho_chunk)
                   => cs = << Merged(ss) >>
    /\ DividirEmChunks(<<"A", ".", " ", "B", ".", " ", "C", ".">>, 100)
          = << <<"A", ".", " ", "B", ".", " ", "C", ".">> >>

\* two sentences merged, and a third that would bring the buffer to exactly
\* the target size opens the second chunk
C16_Witness ==
    /\ saida # <<>> /\ Len(saida[1]) = 2
    /\ Len(SentencesOf(saida[1][1])) = 2
    /\ BufLen(SentencesOf(saida[1][1]), 2) + StrLen(SentencesOf(saida[1][2])[1])
          = tamanho_chunk

\* the chunks of the documents docs, and who owns each of them
RECURSIVE ChunksOfDocs(_)
ChunksOfDocs(docs) ==
    IF docs = <<>> THEN <<>>
    ELSE ChunksOfDocs(SubSeq(docs, 1, Len(docs) - 1))
         \o DividirEmChunks(docs[Len(docs)].texto, DefaultTamanhoChunk)

RECURSIVE OwnersOfDocs(_)
OwnersOfDocs(docs) ==
    IF docs = <<>> THEN <<>>
    ELSE LET d == docs[Len(docs)]
             m == Len(DividirEmChunks(d.texto, DefaultTamanhoChunk))
         IN OwnersOfDocs(SubSeq(docs, 1, Len(docs) - 1))
            \o [i \in 1..m |-> [doc_id |-> Len(docs) - 1, chunk_id |-> i - 1,
                                titulo |-> d.titulo]]

\* C17: in SistemaRAG there are as many metadata records as chunks; the d-th
\* document has id d-1; the chunks are those of the documents in insertion
\* order, and the record of each chunk carries its document's id and title
\* and the chunk's number within the document, whatever mapping the caller
\* gave.
C17_ChunkOwnership ==
    script = "rag" =>
        /\ Len(chunks) = Len(metadados)
        /\ \A d \in 1..Len(documentos) : documentos[d].id = d - 1
        /\ chunks = ChunksOfDocs(documentos)
        /\ Len(metadados) = Len(OwnersOfDocs(documentos))
        /\ \A i \in 1..Len(metadados) :
              /\ heap[metadados[i]]["doc_id"] = OwnersOfDocs(documentos)[i].doc_id
              /\ heap[metadados[i]]["chunk_id"] = OwnersOfDocs(documentos)[i].chunk_id
              /\ heap[metadados[i]]["titulo"] = OwnersOfDocs(documentos)[i].titulo

====
